---- MODULE Spec2Model ----
(***************************************************************************)
(* ComfyUI-History, web/history-loader.js: the PNG text-metadata           *)
(* extraction, the load paths around it, the menu buttons and Load Text.   *)
(*                                                                         *)
(* The file holds two copies of the extraction logic:                      *)
(*   - the inline copy, parsePngTexts (lines 55-77), a chunk walker that   *)
(*     decodes tEXt chunks itself;                                         *)
(*   - the modular copy (lines 620-658 and 685-745), which asks the host   *)
(*     module /scripts/png.js for parseChunks, decodeTextChunk and         *)
(*     decodeZtextChunk and accumulates their results in a loop.           *)
(* JavaScript semantics the source relies on are modelled as they are:     *)
(* << and | work on signed 32-bit integers, an out-of-range typed-array    *)
(* read is undefined (0 in bit operations and in String.fromCharCode),     *)
(* TypedArray.slice clamps and wraps negative indices, TextDecoder is a    *)
(* non-fatal UTF-8 decoder that strips a leading BOM, an assignment to     *)
(* the key "__proto__" of a plain object creates no own property, the      *)
(* empty string and undefined are falsy, and appendChild moves an element  *)
(* that is already attached.                                               *)
(*                                                                         *)
(* Three state machines share the variables:                               *)
(*   Spec, LiveSpec   Load PNG / Load Remote PNG on an input buffer;       *)
(*   MenuSpec, MenuLive   setup, addMenuButton and the two save buttons;   *)
(*   DialogSpec       the Load Text button of the history dialog.          *)
(***************************************************************************)
EXTENDS Integers, Sequences, FiniteSets, TLC

VARIABLES
    copy,       \* which copy of the extraction logic runs: "inline" | "modular"
    uint8,      \* the input buffer, a sequence of bytes (index i of JS = i+1 here)
    offset,     \* parsePngTexts: let offset
    texts,      \* const texts = {}: own keys -> text (strings are code-point seqs)
    pc,         \* "walk" | "parse" | "loop" | "done" | "failed" | "json" | "ended"
    chunks,     \* modular copy: the result of mod.parseChunks(arr)
    ci,         \* modular copy: number of chunks the for-of loop has consumed
    warnings,   \* modular copy: number of console.warn calls
    last,       \* history: the loop iteration just executed
    entries,    \* history: the (keyword, text) pairs decoded so far, in stream order
    consumed,   \* history: sum of 12 + length over the chunks processed so far
    tick,       \* history: parity of the number of loop iterations executed
    path,       \* the load path that runs: "local" (Load PNG) | "remote" (Load Remote PNG)
    raw,        \* const raw: the looked-up metadata value, [defined, value]
    loadCalls,  \* number of app.loadGraphData calls
    loaded,     \* the JSON text whose parse was handed to app.loadGraphData
    message,    \* what the path told the user: "none" or the stage that failed
    channel,    \* how it was told: "none" | "alert" | "status"
    menu,       \* the .comfy-menu element: "absent" | "shown" | "hidden"
    dom,        \* the elements the extension put into the document, in order
    timers,     \* pending setTimeout callbacks: the attempt each will run, FIFO
    setups,     \* number of setup() calls made by the host
    invocations,\* history: number of addMenuButton invocations
    posted,     \* history: the last POST /history/save_now: [button, body] or none
    clipTexts,  \* Load Text: data.clip_texts, a sequence of [id, text]
    nodes,      \* Load Text: the graph, node id -> its widgets (or none)
    idx,        \* Load Text: number of entries forEach has visited
    applied,    \* Load Text: let applied
    missing,    \* Load Text: let missing
    writes,     \* history: the widget writes made, [id, text] in order
    status      \* Load Text: "idle" | "running" | "summary" | "error"

pngVars == <<copy, uint8, offset, texts, pc, chunks, ci, warnings, last, entries,
             consumed, tick>>
loadVars == <<path, raw, loadCalls, loaded, message, channel>>
menuVars == <<menu, dom, timers, setups, invocations, posted>>
dialogVars == <<clipTexts, nodes, idx, applied, missing, writes, status>>

vars == <<pngVars, loadVars, menuVars, dialogVars>>

-----------------------------------------------------------------------------
(* Bounds of the model *)

MaxChunks == 2      \* chunks written into an input buffer
MaxCut == 5         \* bytes cut off the end of an input buffer
MaxSetups == 2      \* setup() calls the host makes
MaxClips == 2       \* entries of clip_texts in a saved prompt

-----------------------------------------------------------------------------
(* Byte-level helpers *)

Min(a, b) == IF a < b THEN a ELSE b
Max(a, b) == IF a > b THEN a ELSE b

\* The first index (0-based) of a zero byte, or -1: Uint8Array.prototype.indexOf(0)
RECURSIVE IndexOfFrom(_, _)
IndexOfFrom(s, i) ==
    IF i > Len(s) THEN -1
    ELSE IF s[i] = 0 THEN i - 1
    ELSE IndexOfFrom(s, i + 1)

indexOf0(s) == IndexOfFrom(s, 1)

\* TypedArray.prototype.slice(start, end): negative indices count from the end,
\* both are clamped to 0..length, an empty range gives an empty array.
RelIndex(len, i) == IF i < 0 THEN Max(len + i, 0) ELSE Min(i, len)

slice(s, start, end) ==
    LET k == RelIndex(Len(s), start)
        final == RelIndex(Len(s), end)
    IN  IF final > k THEN SubSeq(s, k + 1, final) ELSE <<>>

\* uint8[pos]: undefined outside 0..length-1, which both (undefined << n) and
\* String.fromCharCode(undefined) turn into 0.
ByteAt(s, pos) == IF pos >= 0 /\ pos < Len(s) THEN s[pos + 1] ELSE 0

\* (b << 24) on a byte: the result is a signed 32-bit integer, so a byte of
\* 128..255 gives a negative number.
Shl24(b) == IF b >= 128 THEN (b - 256) * 16777216 ELSE b * 16777216

\* const readUint32 = (pos) => (uint8[pos] << 24) | (uint8[pos + 1] << 16)
\*                           | (uint8[pos + 2] << 8) | uint8[pos + 3];
\* The four operands occupy disjoint bits, so | adds them.
readUint32(s, pos) ==
    Shl24(ByteAt(s, pos)) + ByteAt(s, pos + 1) * 65536
        + ByteAt(s, pos + 2) * 256 + ByteAt(s, pos + 3)

\* String.fromCharCode(uint8[offset + 4], ..., uint8[offset + 7]) as char codes
typeAt(s, pos) ==
    <<ByteAt(s, pos + 4), ByteAt(s, pos + 5), ByteAt(s, pos + 6), ByteAt(s, pos + 7)>>

tEXt == <<116, 69, 88, 116>>
zTXt == <<122, 84, 88, 116>>
IDAT == <<73, 68, 65, 84>>

-----------------------------------------------------------------------------
(* new TextDecoder().decode(bytes): non-fatal UTF-8 (WHATWG Encoding), every   *)
(* maximal ill-formed subsequence becomes U+FFFD, a leading BOM is dropped.    *)

\* number of continuation bytes a lead byte asks for (0: not a lead byte)
Needed(b) ==
    IF b >= 194 /\ b <= 223 THEN 1
    ELSE IF b >= 224 /\ b <= 239 THEN 2
    ELSE IF b >= 240 /\ b <= 244 THEN 3
    ELSE 0

\* bounds the FIRST continuation byte must meet
LowerB(b) == IF b = 224 THEN 160 ELSE IF b = 240 THEN 144 ELSE 128
UpperB(b) == IF b = 237 THEN 159 ELSE IF b = 244 THEN 143 ELSE 191

LeadBits(b) ==
    IF b <= 223 THEN b - 192 ELSE IF b <= 239 THEN b - 224 ELSE b - 240

\* is s[i + k] an acceptable k-th continuation byte of the lead byte s[i]
ContOk(s, i, k) ==
    /\ i + k <= Len(s)
    /\ s[i + k] >= (IF k = 1 THEN LowerB(s[i]) ELSE 128)
    /\ s[i + k] <= (IF k = 1 THEN UpperB(s[i]) ELSE 191)

\* how many of the continuation bytes the lead byte s[i] asks for are there
Matched(s, i) ==
    IF ~ContOk(s, i, 1) THEN 0
    ELSE IF Needed(s[i]) = 1 \/ ~ContOk(s, i, 2) THEN 1
    ELSE IF Needed(s[i]) = 2 \/ ~ContOk(s, i, 3) THEN 2
    ELSE 3

\* the code point of the complete sequence that starts at s[i]
CodePoint(s, i) ==
    IF Needed(s[i]) = 1 THEN LeadBits(s[i]) * 64 + (s[i + 1] - 128)
    ELSE IF Needed(s[i]) = 2
        THEN (LeadBits(s[i]) * 64 + (s[i + 1] - 128)) * 64 + (s[i + 2] - 128)
        ELSE ((LeadBits(s[i]) * 64 + (s[i + 1] - 128)) * 64 + (s[i + 2] - 128)) * 64
                 + (s[i + 3] - 128)

\* A complete sequence gives its code point; a lead byte with too few
\* continuation bytes gives one U+FFFD for the bytes matched, and decoding
\* resumes at the byte that did not fit; any other byte >= 128 gives U+FFFD.
Utf8(s) ==
    LET dec[i \in 1..(Len(s) + 1)] ==
            IF i > Len(s) THEN <<>>
            ELSE IF s[i] < 128 THEN <<s[i]>> \o dec[i + 1]
            ELSE IF Needed(s[i]) = 0 THEN <<65533>> \o dec[i + 1]
            ELSE IF Matched(s, i) = Needed(s[i])
                THEN <<CodePoint(s, i)>> \o dec[i + 1 + Needed(s[i])]
                ELSE <<65533>> \o dec[i + 1 + Matched(s, i)]
    IN  dec[1]

TextDecode(bytes) ==
    LET cps == Utf8(bytes)
    IN  IF Len(cps) > 0 /\ cps[1] = 65279 THEN Tail(cps) ELSE cps

-----------------------------------------------------------------------------
(* The metadata object: const texts = {} is a plain object, so texts[k] = t   *)
(* creates or overwrites the own property k, except for k = "__proto__",      *)
(* which reaches the inherited setter; that setter ignores a string value.    *)

EmptyTexts == [k \in {} |-> <<>>]

ProtoKey == <<95, 95, 112, 114, 111, 116, 111, 95, 95>>

Put(m, k, t) == IF k = ProtoKey THEN m ELSE (k :> t) @@ m

-----------------------------------------------------------------------------
(* Input buffers: the 8 signature bytes, up to MaxChunks chunks written back  *)
(* to back, and up to MaxCut bytes cut off the end.                           *)

Sig == <<137, 80, 78, 71, 13, 10, 26, 10>>

\* the 4-byte trailer; the reader never verifies it
Crc == <<1, 2, 3, 4>>

Be32(n) == <<n \div 16777216, (n \div 65536) % 256, (n \div 256) % 256, n % 256>>

kWorkflow == <<119, 111, 114, 107, 102, 108, 111, 119>>
kOther == <<107>>
kProto == <<95, 95, 112, 114, 111, 116, 111, 95, 95>>

\* a zlib stream holding one stored deflate block with the text "7"
ZStream == <<120, 1, 1, 1, 0, 254, 255, 55, 0, 56, 0, 56>>
\* the same stream with a wrong Adler-32 trailer
ZCorrupt == <<120, 1, 1, 1, 0, 254, 255, 55, 0, 56, 0, 57>>

NoZero == kWorkflow \o <<49>>

TextPayloads ==
    { kWorkflow \o <<0, 49>>,           \* workflow = "1"
      kWorkflow \o <<0, 195, 169>>,     \* workflow = e-acute (two UTF-8 bytes)
      kOther \o <<0, 120, 0, 121>>,     \* a second zero byte inside the text
      NoZero,                           \* no separator at all
      kProto \o <<0, 49>>,              \* keyword "__proto__"
      kWorkflow \o <<0>> }              \* empty text

ZPayloads ==
    { kWorkflow \o <<0, 0>> \o ZStream,     \* method 0, valid stream
      kWorkflow \o <<0, 1>> \o ZStream,     \* unsupported method byte
      kWorkflow \o <<0, 0>> \o ZCorrupt,    \* corrupt stream
      NoZero }

Enc(lenBytes, type, data) == lenBytes \o type \o data \o Crc

WellFormed(type, data) == Enc(Be32(Len(data)), type, data)

\* The text-chunk encoder. The repository's embedder is not among the sources
\* at hand; encodeTextChunk is modelled from the design document, 4.4: 4-byte
\* big-endian length, the type tEXt, keyword, one zero byte, the UTF-8 bytes of
\* the text, and the CRC-32 of type and data (polynomial EDB88320, register
\* preset to all ones and complemented at the end).

\* the UTF-8 bytes of a sequence of code points
Utf8Encode(cps) ==
    LET enc[i \in 1..(Len(cps) + 1)] ==
            IF i > Len(cps) THEN <<>>
            ELSE LET c == cps[i]
                 IN  (IF c < 128 THEN <<c>>
                      ELSE IF c < 2048 THEN <<192 + (c \div 64), 128 + (c % 64)>>
                      ELSE IF c < 65536
                          THEN <<224 + (c \div 4096), 128 + ((c \div 64) % 64), 128 + (c % 64)>>
                          ELSE <<240 + (c \div 262144), 128 + ((c \div 4096) % 64),
                                 128 + ((c \div 64) % 64), 128 + (c % 64)>>)
                         \o enc[i + 1]
    IN  enc[1]

\* bitwise exclusive or of two naturals
RECURSIVE Xor(_, _)
Xor(a, b) ==
    IF a = 0 THEN b
    ELSE IF b = 0 THEN a
    ELSE ((a + b) % 2) + 2 * Xor(a \div 2, b \div 2)

\* One bit of the CRC register, kept as <<high 16 bits, low 16 bits>>: shift
\* right, and subtract the polynomial EDB8 8320 when a one fell out.
CrcShift(c) ==
    LET hi == c[1] \div 2
        lo == (c[2] \div 2) + (c[1] % 2) * 32768
    IN  IF c[2] % 2 = 1 THEN <<Xor(hi, 60856), Xor(lo, 33568)>> ELSE <<hi, lo>>

\* entry n of the PNG CRC table: n shifted through eight bits
CrcTable(n) ==
    CrcShift(CrcShift(CrcShift(CrcShift(CrcShift(CrcShift(CrcShift(CrcShift(<<0, n>>))))))))

\* one byte: c = table[(c ^ b) & 0xff] ^ (c >> 8)
CrcByte(c, b) ==
    LET t == CrcTable(Xor(c[2] % 256, b))
    IN  <<Xor(c[1] \div 256, t[1]), Xor((c[2] \div 256) + (c[1] % 256) * 256, t[2])>>

\* the register after the bytes of d went in
CrcFrom(d, c0) ==
    LET reg[i \in 0..Len(d)] ==
            IF i = 0 THEN c0 ELSE CrcByte(reg[i - 1], d[i])
    IN  reg[Len(d)]

\* the four CRC bytes of d, most significant first
Crc32(d) ==
    LET c == CrcFrom(d, <<65535, 65535>>)
        hi == 65535 - c[1]
        lo == 65535 - c[2]
    IN  <<hi \div 256, hi % 256, lo \div 256, lo % 256>>

encodeTextChunk(keyword, text) ==
    LET data == keyword \o <<0>> \o Utf8Encode(text)
    IN  Be32(Len(data)) \o tEXt \o data \o Crc32(tEXt \o data)

\* what the encoder is given: a text of one two-byte character, and a text
\* that starts with U+FEFF
EncodedPairs ==
    { [keyword |-> kOther, text |-> <<233>>],
      [keyword |-> kOther, text |-> <<65279, 49>>] }

\* the chunks the encoder writes for them
Encoded ==
    { [keyword |-> p.keyword, text |-> p.text,
       bytes |-> encodeTextChunk(p.keyword, p.text)] : p \in EncodedPairs }

ChunkSet ==
    { WellFormed(tEXt, p) : p \in TextPayloads }
        \cup { WellFormed(zTXt, p) : p \in ZPayloads }
        \cup { WellFormed(IDAT, kWorkflow \o <<0, 49>>),
               \* declares 200 data bytes and carries 10
               Enc(Be32(200), tEXt, kWorkflow \o <<0, 49>>),
               \* length bytes FF FF FF F4
               Enc(<<255, 255, 255, 244>>, IDAT, <<>>) }
        \cup { e.bytes : e \in Encoded }

RECURSIVE Streams(_)
Streams(n) ==
    IF n = 0 THEN { <<>> }
    ELSE LET shorter == Streams(n - 1)
         IN  shorter \cup { s \o c : s \in shorter, c \in ChunkSet }

Cut(b, k) == SubSeq(b, 1, Len(b) - Min(k, Len(b)))

Buffers == { Cut(Sig \o s, k) : s \in Streams(MaxChunks), k \in 0..MaxCut }

-----------------------------------------------------------------------------
(* Initial state: a load path of one copy starts on an input buffer.         *)

NoIteration ==
    [kind |-> "none", off |-> 0, length |-> 0, type |-> <<>>,
     before |-> EmptyTexts, warn |-> 0]

\* const raw before the lookup, and the value of a property that is not there
NoRaw == [defined |-> FALSE, value |-> <<>>]

\* no POST /history/save_now has been made
NoPost == [button |-> "none", clip_only |-> FALSE, file_prefix |-> "", clip_suffix |-> FALSE]

\* a load path is at its start: nothing looked up, loaded or reported
LoadStart ==
    /\ raw = NoRaw
    /\ loadCalls = 0
    /\ loaded = <<>>
    /\ message = "none"
    /\ channel = "none"

\* the page before setup(): no menu, no element of the extension, no timer
MenuIdle ==
    /\ menu = "absent"
    /\ dom = <<>>
    /\ timers = <<>>
    /\ setups = 0
    /\ invocations = 0
    /\ posted = NoPost

\* the history dialog with no Load Text run
DialogIdle ==
    /\ clipTexts = <<>>
    /\ nodes = <<>>
    /\ idx = 0
    /\ applied = 0
    /\ missing = 0
    /\ writes = <<>>
    /\ status = "idle"

\* no PNG is being read
PngIdle ==
    /\ copy = "none"
    /\ uint8 = <<>>
    /\ offset = 8
    /\ texts = EmptyTexts
    /\ pc = "idle"
    /\ chunks = <<>>
    /\ ci = 0
    /\ warnings = 0
    /\ last = NoIteration
    /\ entries = <<>>
    /\ consumed = 0
    /\ tick = 0
    /\ path = "none"
    /\ LoadStart

\* Load PNG or Load Remote PNG was clicked and is about to obtain the buffer
Init ==
    /\ copy \in {"inline", "modular"}
    /\ path \in {"local", "remote"}
    /\ uint8 \in Buffers
    /\ offset = 8
    /\ texts = EmptyTexts
    /\ pc = IF copy = "inline" THEN "walk" ELSE "parse"
    /\ chunks = <<>>
    /\ ci = 0
    /\ warnings = 0
    /\ last = NoIteration
    /\ entries = <<>>
    /\ consumed = 0
    /\ tick = 0
    /\ LoadStart
    /\ MenuIdle
    /\ DialogIdle

-----------------------------------------------------------------------------
(* The inline copy: parsePngTexts, one action per way through the loop       *)

\* while (offset + 8 <= uint8.length)
LoopCond(s, off) == off + 8 <= Len(s)

\* mutants of PastEnd: the check left out, and the check with 4 bytes of slack
PastEndMissing(s, dataEnd) == FALSE
PastEndSlack(s, dataEnd) == dataEnd > Len(s) + 4

\* if (dataEnd > uint8.length) break;
PastEnd(s, dataEnd) == dataEnd > Len(s)

\* offset = dataEnd + 4; // skip CRC
NextOffset(dataEnd) == dataEnd + 4

\* if (type === "tEXt")
IsTextChunk(type) == type = tEXt

\* the loop condition fails: return texts
LoopExit ==
    /\ pc = "walk"
    /\ ~LoopCond(uint8, offset)
    /\ pc' = "done"
    /\ last' = [kind |-> "exit", off |-> offset, length |-> 0, type |-> <<>>,
                before |-> texts, warn |-> warnings]
    /\ tick' = 1 - tick
    /\ UNCHANGED <<copy, uint8, offset, texts, chunks, ci, warnings, entries, consumed>>
    /\ UNCHANGED <<loadVars, menuVars, dialogVars>>

\* the declared data end lies past the buffer: break, return texts
Truncated ==
    /\ pc = "walk"
    /\ LoopCond(uint8, offset)
    /\ LET length == readUint32(uint8, offset)
           dataEnd == offset + 8 + length
       IN  /\ PastEnd(uint8, dataEnd)
           /\ last' = [kind |-> "truncated", off |-> offset, length |-> length,
                       type |-> typeAt(uint8, offset), before |-> texts,
                       warn |-> warnings]
    /\ pc' = "done"
    /\ tick' = 1 - tick
    /\ UNCHANGED <<copy, uint8, offset, texts, chunks, ci, warnings, entries, consumed>>
    /\ UNCHANGED <<loadVars, menuVars, dialogVars>>

\* One full iteration: decode a tEXt chunk, skip any other, advance past the
\* CRC. Each const of the loop body is bound once, by a one-element \E:
\*   const data = uint8.slice(dataStart, dataEnd);
\*   const nullIdx = data.indexOf(0);
\*   if (nullIdx >= 0) { const keyword = new TextDecoder().decode(data.slice(0, nullIdx));
\*                       const text = new TextDecoder().decode(data.slice(nullIdx + 1));
\*                       texts[keyword] = text; }
ProcessChunk ==
    /\ pc = "walk"
    /\ LoopCond(uint8, offset)
    /\ \E length \in {readUint32(uint8, offset)} :
       \E dataEnd \in {offset + 8 + length} :
          /\ ~PastEnd(uint8, dataEnd)
          /\ \E type \in {typeAt(uint8, offset)}, data \in {slice(uint8, offset + 8, dataEnd)} :
             \E nullIdx \in {indexOf0(data)} :
             \E keyword \in {TextDecode(slice(data, 0, nullIdx))},
                text \in {TextDecode(slice(data, nullIdx + 1, Len(data)))} :
             \E stored \in {IsTextChunk(type) /\ nullIdx >= 0} :
                /\ texts' = IF stored THEN Put(texts, keyword, text) ELSE texts
                /\ entries' = IF stored
                                 THEN Append(entries, [keyword |-> keyword, text |-> text])
                                 ELSE entries
                /\ last' = [kind |-> "chunk", off |-> offset, length |-> length,
                            type |-> type, before |-> texts, warn |-> warnings]
          /\ offset' = NextOffset(dataEnd)
          /\ consumed' = consumed + 12 + length
    /\ tick' = 1 - tick
    /\ UNCHANGED <<copy, uint8, pc, chunks, ci, warnings>>
    /\ UNCHANGED <<loadVars, menuVars, dialogVars>>

-----------------------------------------------------------------------------
(* The host module /scripts/png.js the modular copy imports. Its code is not *)
(* part of the repository; it is modelled from the design document: 4.1 for  *)
(* parseChunks, 4.2 for decodeTextChunk and decodeZtextChunk.                *)

\* 4.1: walk from offset 8, lengths are unsigned big-endian, stop at the first
\* chunk whose data end exceeds the buffer. A first length byte of 128..255
\* declares at least 2^31 bytes, more than any buffer holds.
RECURSIVE parseChunksFrom(_, _)
parseChunksFrom(s, off) ==
    IF off + 8 > Len(s) THEN <<>>
    ELSE IF s[off + 1] >= 128 THEN <<>>
    ELSE LET length == s[off + 1] * 16777216 + s[off + 2] * 65536
                           + s[off + 3] * 256 + s[off + 4]
         IN  IF length > Len(s) - (off + 8) THEN <<>>
             ELSE <<[name |-> SubSeq(s, off + 5, off + 8),
                     data |-> SubSeq(s, off + 9, off + 8 + length)]>>
                      \o parseChunksFrom(s, off + 8 + length + 4)

parseChunks(s) == parseChunksFrom(s, 8)

\* 4.2, tEXt: split at the first zero byte. The document does not say what the
\* function does without a separator: it may throw, or return the whole data
\* as the keyword; both outcomes are kept.
decodeTextChunk(data) ==
    LET nullIdx == indexOf0(data)
    IN  IF nullIdx >= 0
            THEN { [ok |-> TRUE,
                    keyword |-> TextDecode(SubSeq(data, 1, nullIdx)),
                    text |-> TextDecode(SubSeq(data, nullIdx + 2, Len(data)))] }
            ELSE { [ok |-> FALSE, keyword |-> <<>>, text |-> <<>>],
                   [ok |-> TRUE, keyword |-> TextDecode(data), text |-> <<>>] }

\* Adler-32 of d, as the pair <<a, b>>
RECURSIVE AdlerFrom(_, _, _, _)
AdlerFrom(d, i, a, b) ==
    IF i > Len(d) THEN <<a, b>>
    ELSE LET a2 == (a + d[i]) % 65521
         IN  AdlerFrom(d, i + 1, a2, (b + a2) % 65521)

\* Inflate of a zlib stream that holds one final stored block (RFC 1950/1951):
\* CMF FLG | 01 LEN(lo hi) NLEN(lo hi) | data | Adler-32 (big-endian).
\* Streams with compressed blocks are outside the modelled fragment; the input
\* buffers hold none.
Inflate(z) ==
    LET fail == [ok |-> FALSE, bytes |-> <<>>]
    IN  IF Len(z) < 7 THEN fail
        ELSE IF z[1] % 16 # 8 \/ (z[1] * 256 + z[2]) % 31 # 0 \/ (z[2] \div 32) % 2 = 1
            THEN fail
        ELSE IF z[3] % 8 # 1 THEN fail
        ELSE LET len == z[4] + 256 * z[5]
                 nlen == z[6] + 256 * z[7]
             IN  IF len + nlen # 65535 \/ Len(z) < 7 + len + 4 THEN fail
                 ELSE LET d == SubSeq(z, 8, 7 + len)
                          ad == AdlerFrom(d, 1, 1, 0)
                          t == 7 + len
                      IN  IF /\ z[t + 1] = ad[2] \div 256
                             /\ z[t + 2] = ad[2] % 256
                             /\ z[t + 3] = ad[1] \div 256
                             /\ z[t + 4] = ad[1] % 256
                              THEN [ok |-> TRUE, bytes |-> d]
                              ELSE fail

\* 4.2, zTXt: keyword, zero, compression-method byte, zlib stream. A missing
\* separator, a method byte other than 0 and an inflate failure all throw.
decodeZtextChunk(data) ==
    LET nullIdx == indexOf0(data)
        thrown == [ok |-> FALSE, keyword |-> <<>>, text |-> <<>>]
    IN  IF nullIdx < 0 \/ nullIdx + 2 > Len(data) THEN thrown
        ELSE IF data[nullIdx + 2] # 0 THEN thrown
        ELSE LET inf == Inflate(SubSeq(data, nullIdx + 3, Len(data)))
             IN  IF inf.ok
                     THEN [ok |-> TRUE,
                           keyword |-> TextDecode(SubSeq(data, 1, nullIdx)),
                           text |-> TextDecode(inf.bytes)]
                     ELSE thrown

-----------------------------------------------------------------------------
(* The modular copy: readPngWorkflow (lines 620-658) and                     *)
(* loadWorkflowFromRemotePng (lines 685-745) hold the same loop.             *)

\* const chunks = mod.parseChunks(arr); const texts = {};
ParseChunks ==
    /\ pc = "parse"
    /\ chunks' = parseChunks(uint8)
    /\ pc' = "loop"
    /\ UNCHANGED <<copy, uint8, offset, texts, ci, warnings, last, entries, consumed, tick>>
    /\ UNCHANGED <<loadVars, menuVars, dialogVars>>

Iteration(c) ==
    [kind |-> "mchunk", off |-> ci, length |-> Len(c.data), type |-> c.name,
     before |-> texts, warn |-> warnings]

\* if (chunk.name === "tEXt") { const txt = mod.decodeTextChunk(chunk.data);
\*                              texts[txt.keyword] = txt.text; }
\* A throw leaves the loop: reject(err) in one function, the outer catch in the other.
LoopText ==
    /\ pc = "loop"
    /\ ci < Len(chunks)
    /\ LET chunk == chunks[ci + 1]
       IN  /\ chunk.name = tEXt
           /\ \E txt \in decodeTextChunk(chunk.data) :
                 /\ texts' = IF txt.ok THEN Put(texts, txt.keyword, txt.text) ELSE texts
                 /\ entries' = IF txt.ok
                                  THEN Append(entries, [keyword |-> txt.keyword,
                                                        text |-> txt.text])
                                  ELSE entries
                 /\ pc' = IF txt.ok THEN "loop" ELSE "failed"
           /\ last' = Iteration(chunk)
    /\ ci' = ci + 1
    /\ tick' = 1 - tick
    /\ UNCHANGED <<copy, uint8, offset, chunks, warnings, consumed>>
    /\ UNCHANGED <<loadVars, menuVars, dialogVars>>

\* mutant of ZtextCatch: no try/catch around the zTXt branch
ZtextRethrow(w) == [pc |-> "failed", warnings |-> w]

\* catch (err) { console.warn("[HistoryLoader] failed to decode zTXt", err); }
ZtextCatch(w) == [pc |-> "loop", warnings |-> w + 1]

\* else if (chunk.name === "zTXt") { try { const txt = mod.decodeZtextChunk(chunk.data);
\*                                         texts[txt.keyword] = txt.text; } catch ... }
LoopZtext ==
    /\ pc = "loop"
    /\ ci < Len(chunks)
    /\ \E chunk \in {chunks[ci + 1]} :
          /\ chunk.name = zTXt
          /\ \E txt \in {decodeZtextChunk(chunk.data)}, caught \in {ZtextCatch(warnings)} :
                /\ texts' = IF txt.ok THEN Put(texts, txt.keyword, txt.text) ELSE texts
                /\ entries' = IF txt.ok
                                 THEN Append(entries, [keyword |-> txt.keyword,
                                                       text |-> txt.text])
                                 ELSE entries
                /\ pc' = IF txt.ok THEN "loop" ELSE caught.pc
                /\ warnings' = IF txt.ok THEN warnings ELSE caught.warnings
          /\ last' = Iteration(chunk)
    /\ ci' = ci + 1
    /\ tick' = 1 - tick
    /\ UNCHANGED <<copy, uint8, offset, chunks, consumed>>
    /\ UNCHANGED <<loadVars, menuVars, dialogVars>>

\* a chunk of any other name: neither branch is taken
LoopOther ==
    /\ pc = "loop"
    /\ ci < Len(chunks)
    /\ LET chunk == chunks[ci + 1]
       IN  /\ chunk.name # tEXt
           /\ chunk.name # zTXt
           /\ last' = Iteration(chunk)
    /\ ci' = ci + 1
    /\ tick' = 1 - tick
    /\ UNCHANGED <<copy, uint8, offset, texts, pc, chunks, warnings, entries, consumed>>
    /\ UNCHANGED <<loadVars, menuVars, dialogVars>>

\* the for-of loop is exhausted
LoopEnd ==
    /\ pc = "loop"
    /\ ci = Len(chunks)
    /\ pc' = "done"
    /\ last' = [kind |-> "exit", off |-> ci, length |-> 0, type |-> <<>>,
                before |-> texts, warn |-> warnings]
    /\ tick' = 1 - tick
    /\ UNCHANGED <<copy, uint8, offset, texts, chunks, ci, warnings, entries, consumed>>
    /\ UNCHANGED <<loadVars, menuVars, dialogVars>>

-----------------------------------------------------------------------------
(* The load paths around the extraction: loadWorkflowFromPng with            *)
(* readPngWorkflow (lines 96-141, 620-683) and loadWorkflowFromRemotePng     *)
(* (lines 143-244, 685-745).                                                 *)

\* Where a failure of stage is reported. The Load handler of the inline
\* chooser writes the chooser's status line (lines 188-191, 212-215); listing
\* the output images and every other catch use alert().
Channel(c, p, stage) ==
    IF c = "inline" /\ p = "remote" /\ stage \notin {"list", "empty"}
        THEN "status" ELSE "alert"

\* What can end a path before the buffer is parsed: reader.onerror or a failed
\* import (local); a failed listing, an empty listing, a wrong index, a failed
\* image fetch, a failed import or a cancelled prompt() (remote).
OpenStages(c, p) ==
    IF p = "local"
        THEN {"read"} \cup (IF c = "modular" THEN {"import"} ELSE {})
        ELSE {"list", "empty", "selection", "fetch"}
                 \cup (IF c = "modular" THEN {"import", "cancel"} ELSE {})

\* the path ends before the buffer is parsed
OpenFails ==
    /\ pc \in {"walk", "parse"}
    /\ last = NoIteration
    /\ \E stage \in OpenStages(copy, path) :
          /\ message' = stage
          /\ channel' = IF stage = "cancel" THEN "none" ELSE Channel(copy, path, stage)
    /\ pc' = "ended"
    /\ UNCHANGED <<copy, uint8, offset, texts, chunks, ci, warnings, last, entries,
                   consumed, tick>>
    /\ UNCHANGED <<path, raw, loadCalls, loaded, menuVars, dialogVars>>

\* decodeTextChunk threw inside the loop: catch (err) { reject(err) } and the
\* caller's catch, or the catch of loadWorkflowFromRemotePng
Rejected ==
    /\ pc = "failed"
    /\ message' = "decode"
    /\ channel' = Channel(copy, path, "decode")
    /\ pc' = "ended"
    /\ UNCHANGED <<copy, uint8, offset, texts, chunks, ci, warnings, last, entries,
                   consumed, tick>>
    /\ UNCHANGED <<path, raw, loadCalls, loaded, menuVars, dialogVars>>

\* key in texts, for the key "workflow" (no such name is inherited)
In(key, m) == key \in DOMAIN m

\* texts[key], texts.workflow: undefined when there is no such property
Get(m, key) == IF key \in DOMAIN m THEN [defined |-> TRUE, value |-> m[key]] ELSE NoRaw

\* !raw: undefined and the empty string are falsy, any other string is truthy
Falsy(v) == ~v.defined \/ v.value = <<>>

\* const key = which === "prompt" ? "prompt" : "workflow"; (which is "workflow")
\* if (!(key in texts)) { reject(new Error(`No '${key}' metadata found in PNG.`)); return; }
\* resolve(texts[key]);
LookupIn ==
    /\ pc = "done"
    /\ path = "local"
    /\ IF In(kWorkflow, texts)
           THEN /\ raw' = Get(texts, kWorkflow)
                /\ pc' = "json"
                /\ UNCHANGED <<message, channel>>
           ELSE /\ raw' = NoRaw
                /\ pc' = "ended"
                /\ message' = "notfound"
                /\ channel' = Channel(copy, path, "notfound")
    /\ last' = [last EXCEPT !.kind = "lookup"]
    /\ UNCHANGED <<copy, uint8, offset, texts, chunks, ci, warnings, entries,
                   consumed, tick>>
    /\ UNCHANGED <<path, loadCalls, loaded, menuVars, dialogVars>>

\* const raw = texts.workflow;
\* if (!raw) { throw new Error("No 'workflow' metadata found in PNG."); }
LookupTruthy ==
    /\ pc = "done"
    /\ path = "remote"
    /\ raw' = Get(texts, kWorkflow)
    /\ IF Falsy(raw')
           THEN /\ pc' = "ended"
                /\ message' = "notfound"
                /\ channel' = Channel(copy, path, "notfound")
           ELSE /\ pc' = "json"
                /\ UNCHANGED <<message, channel>>
    /\ last' = [last EXCEPT !.kind = "lookup"]
    /\ UNCHANGED <<copy, uint8, offset, texts, chunks, ci, warnings, entries,
                   consumed, tick>>
    /\ UNCHANGED <<path, loadCalls, loaded, menuVars, dialogVars>>

Digit(c) == c >= 48 /\ c <= 57

\* JSON.parse(s) returns: s is an integer literal, {} or []. The metadata
\* values of the input buffers that are JSON texts are all of this form.
JsonParses(s) ==
    \/ /\ Len(s) >= 1
       /\ \A i \in 1..Len(s) : Digit(s[i])
       /\ Len(s) = 1 \/ s[1] # 48
    \/ s \in { <<123, 125>>, <<91, 93>> }

\* mutant of CanParse: no try/catch around JSON.parse, whatever was found is loaded
CanParseAnything(v) == TRUE

\* try { parsed = JSON.parse(raw); } catch { throw new Error("Workflow metadata is not valid JSON."); }
CanParse(v) == v.defined /\ JsonParses(v.value)

\* the parse and, when it succeeds, await app.loadGraphData(parsed), which
\* the host resolves or rejects
ParseAndLoad ==
    /\ pc = "json"
    /\ IF CanParse(raw)
           THEN /\ loadCalls' = loadCalls + 1
                /\ loaded' = raw.value
                /\ \E resolved \in BOOLEAN :
                      IF resolved
                          THEN message' = "loaded" /\ channel' = "none"
                          ELSE message' = "load" /\ channel' = Channel(copy, path, "load")
           ELSE /\ message' = "badjson"
                /\ channel' = Channel(copy, path, "badjson")
                /\ UNCHANGED <<loadCalls, loaded>>
    /\ pc' = "ended"
    /\ UNCHANGED <<copy, uint8, offset, texts, chunks, ci, warnings, last, entries,
                   consumed, tick>>
    /\ UNCHANGED <<path, raw, menuVars, dialogVars>>

-----------------------------------------------------------------------------

Next ==
    \/ LoopExit
    \/ Truncated
    \/ ProcessChunk
    \/ ParseChunks
    \/ LoopText
    \/ LoopZtext
    \/ LoopOther
    \/ LoopEnd
    \/ OpenFails
    \/ Rejected
    \/ LookupIn
    \/ LookupTruthy
    \/ ParseAndLoad

Spec == Init /\ [][Next]_vars

\* Both copies are straight-line synchronous code: an enabled step is taken.
LiveSpec == Spec /\ WF_vars(Next)

-----------------------------------------------------------------------------
(* The menu buttons: addMenuButton (lines 419-539), setup (541-547) and      *)
(* saveNow (29-53). The document is the sequence of the elements the         *)
(* extension attached, each with its id and its parent.                      *)

\* if (attempt < 20)
MaxAttempt == 20

ButtonIds ==
    << "prompt-history-load", "prompt-history-save", "prompt-history-save-text",
       "prompt-history-load-png", "prompt-history-load-remote" >>

\* const floatContainerId = "prompt-history-fab";
FabId == "prompt-history-fab"

\* document.querySelector("#" + id), document.getElementById(id): the position
\* of the first element with that id, 0 for null
querySelector(d, id) ==
    IF \E i \in 1..Len(d) : d[i].id = id
        THEN CHOOSE i \in 1..Len(d) : d[i].id = id /\ \A j \in 1..(i - 1) : d[j].id # id
        ELSE 0

\* the document without the element at position at
Without(d, at) == SubSeq(d, 1, at - 1) \o SubSeq(d, at + 1, Len(d))

\* parent.appendChild(el): el becomes the last child of parent; an element
\* that is in the document already (at position at > 0) leaves its place
appendChild(d, parent, id, at) ==
    Append(IF at = 0 THEN d ELSE Without(d, at), [id |-> id, parent |-> parent])

\* mutant of ShouldAppend: the guard left out, every button is appended
ShouldAppendAlways(existing) == TRUE

\* if (!existing) ...appendChild(historyBtn), and so for each of the five
ShouldAppend(existing) == existing = 0

\* The five appendChild statements. d0 is the document the five querySelector
\* calls saw, d the document so far; button i is the element found, or a new one.
RECURSIVE AppendButtons(_, _, _, _)
AppendButtons(d0, d, parent, i) ==
    IF i > Len(ButtonIds) THEN d
    ELSE LET id == ButtonIds[i]
             existing == querySelector(d0, id)
             at == IF existing = 0 THEN 0 ELSE querySelector(d, id)
         IN  AppendButtons(d0,
                           IF ShouldAppend(existing) THEN appendChild(d, parent, id, at)
                                                     ELSE d,
                           parent, i + 1)

\* let floatContainer = document.getElementById(floatContainerId);
\* if (!floatContainer) { floatContainer = $el("div", ...); document.body.appendChild(floatContainer); }
EnsureFab(d) ==
    IF querySelector(d, FabId) = 0 THEN Append(d, [id |-> FabId, parent |-> "body"]) ELSE d

\* mutant of Target: no fallback, the buttons always go into the menu
TargetMenuOnly(m) == "menu"

\* if (menuDisplay !== "none") menu.appendChild(...) else floatContainer.appendChild(...)
Target(m) == IF m = "shown" THEN "menu" ELSE "fab"

\* mutant of Retry: one retry more
RetryOnceMore(attempt) == attempt <= MaxAttempt

\* if (attempt < 20) { setTimeout(() => addMenuButton(attempt + 1), 250); }
Retry(attempt) == attempt < MaxAttempt

\* One invocation of addMenuButton(attempt) on the document d with the pending
\* timers q: the document and the timers it leaves.
addMenuButton(attempt, d, q) ==
    IF menu = "absent"
        THEN [dom |-> d, timers |-> IF Retry(attempt) THEN Append(q, attempt + 1) ELSE q]
    ELSE IF Target(menu) = "menu"
        THEN [dom |-> AppendButtons(d, d, "menu", 1), timers |-> q]
        ELSE [dom |-> AppendButtons(d, EnsureFab(d), "fab", 1), timers |-> q]

\* the page loads: the menu may not be mounted yet, or be hidden
MenuInit ==
    /\ PngIdle
    /\ DialogIdle
    /\ menu \in {"absent", "shown", "hidden"}
    /\ dom = <<>>
    /\ timers = <<>>
    /\ setups = 0
    /\ invocations = 0
    /\ posted = NoPost

\* setup() { addMenuButton(); }: attempt defaults to 0
Setup ==
    /\ setups < MaxSetups
    /\ setups' = setups + 1
    /\ \E r \in {addMenuButton(0, dom, timers)} :
          /\ dom' = r.dom
          /\ timers' = r.timers
    /\ invocations' = invocations + 1
    /\ UNCHANGED <<menu, posted, pngVars, loadVars, dialogVars>>

\* the oldest timer fires: () => addMenuButton(attempt + 1)
TimerFires ==
    /\ timers # <<>>
    /\ \E r \in {addMenuButton(Head(timers), dom, Tail(timers))} :
          /\ dom' = r.dom
          /\ timers' = r.timers
    /\ invocations' = invocations + 1
    /\ UNCHANGED <<menu, setups, posted, pngVars, loadVars, dialogVars>>

\* the host mounts .comfy-menu, displayed or not
MenuMounts ==
    /\ menu = "absent"
    /\ menu' \in {"shown", "hidden"}
    /\ UNCHANGED <<dom, timers, setups, invocations, posted, pngVars, loadVars, dialogVars>>

\* the layout or theme hides or shows the menu
MenuToggles ==
    /\ menu # "absent"
    /\ menu' = IF menu = "shown" THEN "hidden" ELSE "shown"
    /\ UNCHANGED <<dom, timers, setups, invocations, posted, pngVars, loadVars, dialogVars>>

\* saveNow({ clip_only: false })
SaveNowOptions == [clip_only |-> FALSE]

\* mutant of SaveTextOptions: the suffix flag forgotten
SaveTextOptionsNoSuffix == [clip_only |-> TRUE]

\* saveNow({ clip_only: true, clip_suffix: true })
SaveTextOptions == [clip_only |-> TRUE, clip_suffix |-> TRUE]

\* !!options[k]: a property that is not there is undefined, which is falsy
Flag(options, k) == k \in DOMAIN options /\ options[k]

\* options.file_prefix || "prompt"
Prefix(options) ==
    IF "file_prefix" \in DOMAIN options /\ options["file_prefix"] # ""
        THEN options["file_prefix"] ELSE "prompt"

\* saveNow(options), called by button: without a workflow it throws before the
\* request; otherwise it posts the body to /history/save_now.
saveNow(button, options, workflow) ==
    IF ~workflow THEN posted
    ELSE [button |-> button,
          clip_only |-> Flag(options, "clip_only"),
          file_prefix |-> Prefix(options),
          clip_suffix |-> Flag(options, "clip_suffix")]

\* a click on Save Now; app.graph?.serialize?.() gives a workflow or nothing
ClickSaveNow ==
    /\ querySelector(dom, ButtonIds[2]) # 0
    /\ \E workflow \in BOOLEAN : posted' = saveNow(ButtonIds[2], SaveNowOptions, workflow)
    /\ UNCHANGED <<menu, dom, timers, setups, invocations, pngVars, loadVars, dialogVars>>

\* a click on Save Text
ClickSaveText ==
    /\ querySelector(dom, ButtonIds[3]) # 0
    /\ \E workflow \in BOOLEAN : posted' = saveNow(ButtonIds[3], SaveTextOptions, workflow)
    /\ UNCHANGED <<menu, dom, timers, setups, invocations, pngVars, loadVars, dialogVars>>

MenuNext ==
    \/ Setup
    \/ TimerFires
    \/ MenuMounts
    \/ MenuToggles
    \/ ClickSaveNow
    \/ ClickSaveText

MenuSpec == MenuInit /\ [][MenuNext]_vars

\* a timer that was set fires
MenuLive == MenuSpec /\ WF_vars(TimerFires)

-----------------------------------------------------------------------------
(* The Load Text button of the history dialog (lines 342-376): the texts of  *)
(* a saved prompt are written into the "text" widgets of the graph's nodes.  *)

NodeIds == {1, 2}

\* What app.graph.getNodeById(id) can give: nothing, a node without a widgets
\* array, or a node with widgets of the given names.
NodeKinds ==
    { [exists |-> FALSE, widgets |-> FALSE, names |-> {}],
      [exists |-> TRUE, widgets |-> FALSE, names |-> {}],
      [exists |-> TRUE, widgets |-> TRUE, names |-> {}],
      [exists |-> TRUE, widgets |-> TRUE, names |-> {"seed"}],
      [exists |-> TRUE, widgets |-> TRUE, names |-> {"text"}],
      [exists |-> TRUE, widgets |-> TRUE, names |-> {"text", "seed"}] }

\* the entries a saved prompt can hold
ClipEntries == { [id |-> n, text |-> t] : n \in NodeIds, t \in {"a", "b"} }

RECURSIVE ClipLists(_)
ClipLists(n) ==
    IF n = 0 THEN { <<>> }
    ELSE LET shorter == ClipLists(n - 1)
         IN  shorter \cup { Append(l, e) : l \in { x \in shorter : Len(x) = n - 1 },
                                             e \in ClipEntries }

\* the dialog is open on a graph, a saved prompt is about to be fetched
DialogInit ==
    /\ PngIdle
    /\ MenuIdle
    /\ nodes \in [NodeIds -> NodeKinds]
    /\ clipTexts \in ClipLists(MaxClips)
    /\ idx = 0
    /\ applied = 0
    /\ missing = 0
    /\ writes = <<>>
    /\ status = "idle"

\* const selected = list.value; if (!selected) { status = "Pick a prompt first."; return; }
\* const data = await fetchPrompt(selected); const clipTexts = data.clip_texts || [];
\* if (!clipTexts.length) throw new Error("No CLIP text data in this save.");
\* let applied = 0; let missing = 0;
ClickLoadText ==
    /\ status = "idle"
    /\ \E selected \in BOOLEAN, fetched \in BOOLEAN :
          status' = IF ~selected THEN "pick"
                    ELSE IF ~fetched \/ Len(clipTexts) = 0 THEN "error"
                    ELSE "running"
    /\ applied' = 0
    /\ missing' = 0
    /\ UNCHANGED <<clipTexts, nodes, idx, writes, pngVars, loadVars, menuVars>>

\* if (!node || !node.widgets) { missing++; return; }
Usable(node) == node.exists /\ node.widgets

\* mutant of HasTextWidget: the first widget is taken, whatever its name
HasAnyWidget(node) == node.names # {}

\* const textWidget = node.widgets.find((w) => w.name === "text"); if (textWidget)
HasTextWidget(node) == "text" \in node.names

\* one call of the forEach callback, for the entry at position idx
Visit ==
    /\ status = "running"
    /\ idx < Len(clipTexts)
    /\ LET entry == clipTexts[idx + 1]
           node == nodes[entry.id]
       IN  IF Usable(node) /\ HasTextWidget(node)
               THEN /\ writes' = Append(writes, [id |-> entry.id, text |-> entry.text])
                    /\ applied' = applied + 1
                    /\ UNCHANGED missing
               ELSE /\ missing' = missing + 1
                    /\ UNCHANGED <<writes, applied>>
    /\ idx' = idx + 1
    /\ UNCHANGED <<clipTexts, nodes, status, pngVars, loadVars, menuVars>>

\* app.graph.setDirtyCanvas(true, true);
\* status.textContent = `Applied ${applied} text prompt(s); ${missing} missing.`;
Summary ==
    /\ status = "running"
    /\ idx = Len(clipTexts)
    /\ status' = "summary"
    /\ UNCHANGED <<clipTexts, nodes, idx, applied, missing, writes, pngVars, loadVars,
                   menuVars>>

DialogNext ==
    \/ ClickLoadText
    \/ Visit
    \/ Summary

DialogSpec == DialogInit /\ [][DialogNext]_vars

-----------------------------------------------------------------------------
(* Vocabulary of the properties. The fields of a chunk are taken from the    *)
(* buffer as the PNG layout defines them, not from the walker's variables.   *)

\* the iteration just executed went through a whole chunk
ProcessedInline == last.kind = "chunk"
ProcessedModular == last.kind = "mchunk"

\* the iteration just executed read a chunk header of the buffer
ReadHeader == last.kind \in {"chunk", "truncated"}

HeaderByte(i) == uint8[last.off + i]

\* the data field of the chunk the last iteration handled
LastData ==
    IF ProcessedModular THEN chunks[last.off + 1].data
    ELSE SubSeq(uint8, last.off + 9, last.off + 8 + last.length)

HasZero(d) == \E i \in 1..Len(d) : d[i] = 0

FirstZero(d) == CHOOSE i \in 1..Len(d) : d[i] = 0 /\ \A j \in 1..(i - 1) : d[j] # 0

KeywordOf(d) == TextDecode(SubSeq(d, 1, FirstZero(d) - 1))
TextOf(d) == TextDecode(SubSeq(d, FirstZero(d) + 1, Len(d)))

Holds(m, k, t) == k \in DOMAIN m /\ m[k] = t

-----------------------------------------------------------------------------
(* C1: for every input buffer the chunk walk of parsePngTexts terminates:    *)
(* it reaches the return statement, through a failing loop condition or      *)
(* through the break on a data end past the buffer.                          *)
C1_WalkTerminates == (copy = "inline" /\ pc = "walk") ~> (pc # "walk")

(* C2: the length the walker reads from header bytes b0 b1 b2 b3 is the      *)
(* unsigned big-endian value b0*2^24 + b1*2^16 + b2*2^8 + b3, never          *)
(* negative (stated on the high byte and the low 24 bits).                   *)
C2_LengthUnsigned ==
    ReadHeader =>
        /\ last.length >= 0
        /\ last.length \div 16777216 = HeaderByte(1)
        /\ last.length % 16777216 =
               HeaderByte(2) * 65536 + HeaderByte(3) * 256 + HeaderByte(4)

(* C3: the offset is 8 plus the sum of 12 + length over the chunks processed *)
(* so far, and every processed chunk strictly increases it.                  *)
C3_BackToBack ==
    copy = "inline" =>
        /\ offset = 8 + consumed
        /\ ProcessedInline => offset > last.off

C6_SplitAtFirstZero ==
    (ProcessedInline /\ last.length >= 0 /\ last.type = tEXt /\ HasZero(LastData)) =>
        Holds(texts, KeywordOf(LastData), TextOf(LastData))

(* C7: a tEXt chunk without a zero byte is skipped: the map is unchanged and *)
(* the parse goes on, in the inline and in the modular copy.                 *)
C7_NoSeparatorSkipped ==
    ((ProcessedInline \/ ProcessedModular) /\ last.length >= 0
        /\ last.type = tEXt /\ ~HasZero(LastData)) =>
        /\ texts = last.before
        /\ pc # "failed"

(* C8: when several text chunks carry the same keyword, the map holds under  *)
(* that keyword the text of the one decoded last.                            *)
C8_LastWriteWins ==
    copy = "inline" =>
        \A i, j \in 1..Len(entries) :
            (/\ i < j
             /\ entries[i].keyword = entries[j].keyword
             /\ \A h \in (j + 1)..Len(entries) : entries[h].keyword # entries[j].keyword)
                => Holds(texts, entries[j].keyword, entries[j].text)

(* C9: a zTXt chunk with a separator, method byte 0 and a valid stream       *)
(* yields keyword -> inflated text in the map, in both copies.               *)
C9_ZtextDecoded ==
    ((ProcessedInline \/ ProcessedModular) /\ last.length >= 0
        /\ last.type = zTXt /\ decodeZtextChunk(LastData).ok) =>
        Holds(texts, decodeZtextChunk(LastData).keyword, decodeZtextChunk(LastData).text)

(* C10: in the modular copy a zTXt chunk whose decoding fails is skipped     *)
(* with one warning: the map is unchanged, the loop goes on with the next    *)
(* chunk, and a finished loop has consumed every chunk.                      *)
C10_ZtextFailureAbsorbed ==
    /\ (ProcessedModular /\ last.type = zTXt /\ ~decodeZtextChunk(LastData).ok) =>
           /\ texts = last.before
           /\ warnings = last.warn + 1
           /\ pc = "loop"
           /\ ci = last.off + 1
    /\ (copy = "modular" /\ pc = "done") => ci = Len(chunks)

\* C10's case: a text chunk is decoded after an earlier zTXt failure was warned about
C10_Witness ==
    /\ ProcessedModular
    /\ last.warn >= 1
    /\ last.type = tEXt
    /\ texts # last.before
    /\ pc = "loop"

\* some decoded chunk carried the keyword k
Carried(k) == \E i \in 1..Len(entries) : entries[i].keyword = k

(* C11: every load path tells a keyword no chunk carries from a keyword      *)
(* carried with an empty text: "not found" is reported only when no decoded  *)
(* chunk carried "workflow", and a value is passed on only when one did.     *)
C11_AbsentVsEmpty ==
    /\ message = "notfound" => ~Carried(kWorkflow)
    /\ pc = "json" => Carried(kWorkflow)

\* how far the last iteration moved the offset beyond the 12 bytes of header and CRC
Advance == offset - last.off - 12

(* C12: a processed chunk whose type is neither tEXt nor zTXt leaves the map *)
(* unchanged and advances the offset by 12 plus the length its header        *)
(* declares (stated on the high byte and the low 24 bits of that length).    *)
C12_OtherChunksIgnored ==
    (ProcessedInline /\ last.type # tEXt /\ last.type # zTXt) =>
        /\ texts = last.before
        /\ Advance \div 16777216 = HeaderByte(1)
        /\ Advance % 16777216 =
               HeaderByte(2) * 65536 + HeaderByte(3) * 256 + HeaderByte(4)

\* the metadata values of the input buffers that are JSON texts: "1" and "7"
JsonTexts == { <<49>>, <<55>> }

\* the stages whose message reports a failure (an empty listing and a
\* cancelled prompt are not failures)
Failures ==
    {"read", "import", "list", "selection", "fetch", "decode", "notfound", "badjson", "load"}

(* C18: app.loadGraphData is called at most once, and only with the parse of *)
(* the "workflow" value the map holds, which is a JSON text; a path that     *)
(* ended in a failure before the call never made the call, and every         *)
(* failure was reported by alert() or in the chooser's status line.          *)
C18_LoadOnlyAfterParse ==
    /\ loadCalls <= 1
    /\ loadCalls = 1 =>
           /\ pc = "ended"
           /\ message \in {"loaded", "load"}
           /\ loaded \in JsonTexts
           /\ Holds(texts, kWorkflow, loaded)
    /\ pc = "ended" =>
           /\ message # "none"
           /\ message \in Failures => channel \in {"alert", "status"}
           /\ message \in Failures \ {"load"} => loadCalls = 0

\* C18's case: the workflow "1" was found, parsed and handed to loadGraphData
C18_Witness ==
    /\ pc = "ended"
    /\ loadCalls = 1
    /\ message = "loaded"
    /\ loaded = <<49>>
    /\ Carried(kWorkflow)

\* the bytes of the chunk the last inline iteration handled, header to CRC
LastChunk == SubSeq(uint8, last.off + 1, last.off + 12 + last.length)

(* C13: encode followed by decode is the identity: when the chunk just       *)
(* processed is encodeTextChunk(k, t), for an ASCII keyword k and a text t   *)
(* without a zero, the entry decoded from its data field is exactly (k, t).  *)
C13_RoundTrip ==
    \A e \in Encoded :
        (/\ ProcessedInline
         /\ last.length >= 0
         /\ last.off + 12 + last.length <= Len(uint8)
         /\ LastChunk = e.bytes) =>
            /\ entries # <<>>
            /\ entries[Len(entries)] = [keyword |-> e.keyword, text |-> e.text]

\* every one of the five buttons is in the document
AllFive == \A i \in 1..Len(ButtonIds) : querySelector(dom, ButtonIds[i]) # 0

\* the buttons of the document, and those of them under the parent p
Buttons(d) == { i \in 1..Len(d) : d[i].id # FabId }
ButtonsUnder(d, p) == { i \in Buttons(d) : d[i].parent = p }

C15_SaveFlags ==
    /\ posted.button = "prompt-history-save-text" =>
           posted.clip_only /\ posted.clip_suffix /\ posted.file_prefix = "prompt"
    /\ posted.button = "prompt-history-save" =>
           ~posted.clip_only /\ ~posted.clip_suffix /\ posted.file_prefix = "prompt"
    /\ posted.button \in {"none", "prompt-history-save", "prompt-history-save-text"}

\* C15's case: Save Text, placed in the floating bar, made a request
C15_Witness ==
    /\ posted.button = "prompt-history-save-text"
    /\ posted.clip_suffix
    /\ ButtonsUnder(dom, "fab") # {}

\* how many elements of the document have the id
Count(d, id) == Cardinality({ i \in 1..Len(d) : d[i].id = id })

(* C16: the document never holds two elements with one of the five button    *)
(* ids nor two floating containers, and no step moves or re-appends an       *)
(* element: the document only grows at its end.                              *)
C16_NoDuplicateNoMove ==
    /\ [](/\ \A i \in 1..Len(ButtonIds) : Count(dom, ButtonIds[i]) <= 1
          /\ Count(dom, FabId) <= 1)
    /\ [][Len(dom') >= Len(dom) /\ SubSeq(dom', 1, Len(dom)) = dom]_vars

\* C16's case: the buttons sit in the menu, the menu got hidden, and a second
\* setup ran: it created the floating container and left the buttons alone
C16_Witness ==
    /\ setups = 2
    /\ AllFive
    /\ ButtonsUnder(dom, "menu") = Buttons(dom)
    /\ querySelector(dom, FabId) # 0
    /\ menu = "hidden"

(* C17: as long as the menu element has not appeared, each setup call has    *)
(* led to at most 21 invocations of addMenuButton, at most one timer per     *)
(* setup call is pending, each for an attempt from 1 to 20, no button has    *)
(* been added, and once 21 invocations per setup call were made no timer is  *)
(* pending.                                                                  *)
C17_BoundedRetries ==
    menu = "absent" =>
        /\ invocations <= 21 * setups
        /\ Len(timers) <= setups
        /\ \A i \in 1..Len(timers) : timers[i] >= 1 /\ timers[i] <= 20
        /\ invocations = 21 * setups => timers = <<>>
        /\ dom = <<>>

\* C17's case: the menu never appeared and attempt 20 of every setup call has run
C17_Witness ==
    /\ menu = "absent"
    /\ setups >= 1
    /\ invocations = 21 * setups
    /\ timers = <<>>
    /\ dom = <<>>

(* C19: in Load Text every visited entry is counted once, as applied or as   *)
(* missing, so that at completion applied + missing is the number of         *)
(* entries; every write went to a node that exists and has a widget named    *)
(* "text", with the text of an entry for that node; applied is the number    *)
(* of writes.                                                                *)
C19_EveryEntryCounted ==
    /\ applied + missing = idx
    /\ status = "summary" => applied + missing = Len(clipTexts)
    /\ applied = Len(writes)
    /\ \A i \in 1..Len(writes) :
           /\ nodes[writes[i].id].exists
           /\ nodes[writes[i].id].widgets
           /\ "text" \in nodes[writes[i].id].names
           /\ \E j \in 1..idx : clipTexts[j] = writes[i]

\* C19's case: a run completed with one text applied and one entry missing
C19_Witness ==
    /\ status = "summary"
    /\ applied = 1
    /\ missing = 1
    /\ Len(clipTexts) = 2

====
